---- MODULE Spec2Model ----
(***************************************************************************)
(* Model of the DeepGuard frontend request pipeline:                       *)
(*   - ApiService (src/src/services/api.ts): the axios response            *)
(*     interceptors, handleResponseError's retry/backoff, detectDeepfake,  *)
(*     validateFile;                                                       *)
(*   - useFileAnalysis (src/src/hooks/useApi.ts): the session state, the   *)
(*     abort-controller ref, analyzeFile / cancelAnalysis / resetAnalysis  *)
(*     and the unmount cleanup.                                            *)
(* One step of the model is one task of the browser's event loop: an       *)
(* event handler, a timer, or the arrival of an HTTP reply together with   *)
(* the promise continuations it triggers.                                  *)
(***************************************************************************)
EXTENDS Integers, Sequences, FiniteSets, TLC

\* ------------------------------------------------------------------ bounds
NumAnalyze == 2          \* analyzeFile invocations of one controller
NumPollers == 1          \* callers of the service outside the controller
MaxFaults  == 2          \* failed attempts the controller's requests meet
MaxNameLen == 4          \* characters of a file name given to validateFile

\* --------------------------------------------------------------- constants
MAX_RETRIES == 3
MaxFileSize == 100 * 1024 * 1024

Analyzers == 1..NumAnalyze
Pollers   == (NumAnalyze + 1)..(NumAnalyze + NumPollers)
Procs     == Analyzers \cup Pollers

HealthUrl  == "/health"
FormatsUrl == "/supported-formats"
DetectUrl  == "/detect"
Urls       == {HealthUrl, FormatsUrl, DetectUrl}

Absent == "undefined"

TimeoutMsg   == "Request timed out. Please try again."
ConnectMsg   == "Unable to connect to DeepGuard backend. Please ensure the server is running."
UploadCancelledMsg == "Upload was cancelled"
UserCancelledMsg   == "Analysis cancelled by user"
ValidateFailMsg    == "Unable to validate file format. Please try again."
AnalysisFailedMsg  == "Analysis failed. Please try again."
UnknownApiErrorMsg == "Unknown API error"
UnknownErrorMsg    == "Unknown error occurred"
UnsupportedMsg     == "Unsupported file format"
TooLargeMsg        == "File too large"
BackendErrorText   == "backend error text"
CanceledText       == "canceled"
NetworkErrorText   == "Network Error"

\* ----------------------------------------------------------------- files
\* A file name is a sequence of characters; the backend's format lists are
\* sets of dot-prefixed lower-case extensions.
SupportedFormats == [audio |-> {<<".", "w", "a", "v">>},
                     image |-> {<<".", "p", "n", "g">>}]

WavFile == [name |-> <<"a", ".", "W", "a", "v">>, size |-> 1024]
XyzFile == [name |-> <<"b", ".", "x", "y", "z">>, size |-> 1024]
Files   == {WavFile, XyzFile}

ToLowerCase(c) ==
  CASE c = "W" -> "w"
    [] c = "A" -> "a"
    [] c = "V" -> "v"
    [] OTHER   -> c

RECURSIVE LastSegment(_)
\* name.split('.').pop(): the characters after the final '.', the whole
\* name when it has no '.'.
LastSegment(name) ==
  IF name = <<>> THEN <<>>
  ELSE IF name[Len(name)] = "." THEN <<>>
  ELSE LastSegment(SubSeq(name, 1, Len(name) - 1)) \o <<name[Len(name)]>>

FileExtension(name) ==
  <<".">> \o [k \in 1..Len(LastSegment(name)) |-> ToLowerCase(LastSegment(name)[k])]

\* A slip in the validator: every file is accepted.
ValidateAgainst_AcceptAll(file, formats) == [valid |-> TRUE, error |-> Absent]

\* A slip in the size check: the limit itself is refused.
ValidateAgainst_LimitRefused(file, formats) ==
  IF FileExtension(file.name) \notin (formats.audio \cup formats.image)
    THEN [valid |-> FALSE, error |-> UnsupportedMsg]
  ELSE IF file.size >= MaxFileSize
    THEN [valid |-> FALSE, error |-> TooLargeMsg]
  ELSE [valid |-> TRUE, error |-> Absent]

\* validateFile once getSupportedFormats has resolved with `formats`.
ValidateAgainst(file, formats) ==
  IF FileExtension(file.name) \notin (formats.audio \cup formats.image)
    THEN [valid |-> FALSE, error |-> UnsupportedMsg]
  ELSE IF file.size > MaxFileSize
    THEN [valid |-> FALSE, error |-> TooLargeMsg]
  ELSE [valid |-> TRUE, error |-> Absent]

\* A slip in the catch branch: the failure is reported without a reason.
ValidateLookupFailed_NoReason == [valid |-> FALSE, error |-> ""]

\* validateFile when getSupportedFormats rejected (the catch branch).
ValidateLookupFailed == [valid |-> FALSE, error |-> ValidateFailMsg]

\* ------------------------------------------------------------ HTTP replies
Statuses == {200, 404, 503}

\* Response bodies: a structured error object or anything else.
JsonErrorBody == [isObject |-> TRUE,  error |-> BackendErrorText, detail |-> Absent]
TextBody      == [isObject |-> FALSE, error |-> Absent, detail |-> Absent]
Bodies        == {JsonErrorBody, TextBody}
NoResponse    == [status |-> 0, body |-> TextBody]

\* The AxiosError values the response interceptor can be handed.
StatusError(st, body) ==
  [code |-> IF st >= 500 THEN "ERR_BAD_RESPONSE" ELSE "ERR_BAD_REQUEST",
   hasConfig |-> TRUE, response |-> [status |-> st, body |-> body],
   message |-> "Request failed", isCancel |-> FALSE]

TransportCodes == {"ERR_NETWORK", "ECONNABORTED", "ECONNREFUSED"}

TransportFailure(code) ==
  [code |-> code, hasConfig |-> TRUE, response |-> NoResponse,
   message |-> IF code = "ERR_NETWORK" THEN NetworkErrorText ELSE code,
   isCancel |-> FALSE]

\* The error axios produces for an aborted signal; whether it carries the
\* request config depends on the axios release in the build.
CancelError(withConfig) ==
  [code |-> "ERR_CANCELED", hasConfig |-> withConfig, response |-> NoResponse,
   message |-> CanceledText, isCancel |-> TRUE]

HttpStatusText(st) ==
  CASE st = 400 -> "HTTP 400: Bad Request"
    [] st = 401 -> "HTTP 401: Unauthorized"
    [] st = 404 -> "HTTP 404: Not Found"
    [] st = 422 -> "HTTP 422: Unprocessable Entity"
    [] st = 500 -> "HTTP 500: Internal Server Error"
    [] st = 503 -> "HTTP 503: Service Unavailable"
    [] OTHER    -> "HTTP error"

\* ------------------------------------------------------------- ApiService
\* A slip in the retry predicate: every error status is retried.
shouldRetry_AnyErrorStatus(error) ==
  error.response.status = 0
    \/ (error.response.status >= 400 /\ error.response.status < 600)

shouldRetry(error) ==
  error.response.status = 0
    \/ (error.response.status >= 500 /\ error.response.status < 600)

formatApiError(error) ==
  IF error.response.status # 0 /\ error.response.body.isObject
    THEN IF error.response.body.error \notin {Absent, ""}
           THEN error.response.body.error
         ELSE IF error.response.body.detail \notin {Absent, ""}
           THEN error.response.body.detail
         ELSE UnknownApiErrorMsg
  ELSE IF error.response.status # 0 THEN HttpStatusText(error.response.status)
  ELSE IF error.message # "" THEN error.message
  ELSE UnknownErrorMsg

\* retryAttempts.get(url) || 0
RetryCount(ra, url) == IF url \in DOMAIN ra THEN ra[url] ELSE 0

\* A slip in the retry bookkeeping: the new count is not stored.
MapSet_Keeps(ra, url, n) == ra

\* retryAttempts.set(url, n)
MapSet(ra, url, n) == [u \in DOMAIN ra \cup {url} |-> IF u = url THEN n ELSE ra[u]]

\* retryAttempts.delete(url)
MapDelete(ra, url) == [u \in DOMAIN ra \ {url} |-> ra[u]]

\* A slip in the backoff: linear instead of exponential delays.
BackoffDelay_Linear(currentRetries) == (currentRetries + 1) * 1000

\* Math.pow(2, currentRetries) * 1000
BackoffDelay(currentRetries) == (2 ^ currentRetries) * 1000

\* A slip in the retry guard: one retry more than MAX_RETRIES.
handleResponseError_OneMore(error, url, ra) ==
  IF error.code = "ECONNABORTED"
    THEN [retry |-> FALSE, message |-> TimeoutMsg, isCancel |-> FALSE]
  ELSE IF error.code \in {"ECONNREFUSED", "ENOTFOUND"}
    THEN [retry |-> FALSE, message |-> ConnectMsg, isCancel |-> FALSE]
  ELSE IF error.hasConfig /\ shouldRetry(error) /\ RetryCount(ra, url) <= MAX_RETRIES
    THEN [retry |-> TRUE, message |-> Absent, isCancel |-> FALSE]
  ELSE [retry |-> FALSE, message |-> formatApiError(error), isCancel |-> FALSE]

\* handleResponseError: what it decides for `error` on `url` given the map.
handleResponseError(error, url, ra) ==
  IF error.code = "ECONNABORTED"
    THEN [retry |-> FALSE, message |-> TimeoutMsg, isCancel |-> FALSE]
  ELSE IF error.code \in {"ECONNREFUSED", "ENOTFOUND"}
    THEN [retry |-> FALSE, message |-> ConnectMsg, isCancel |-> FALSE]
  ELSE IF error.hasConfig /\ shouldRetry(error) /\ RetryCount(ra, url) < MAX_RETRIES
    THEN [retry |-> TRUE, message |-> Absent, isCancel |-> FALSE]
  ELSE [retry |-> FALSE, message |-> formatApiError(error), isCancel |-> FALSE]

\* The catch block of detectDeepfake applied to a rejection of client.post.
detectDeepfakeCatch(thrown) ==
  IF thrown.isCancel THEN UploadCancelledMsg ELSE thrown.message

\* ---------------------------------------------------- calibration values
\* JavaScript values, tagged by their type.  Numbers are counted in
\* hundredths (50 is 0.5).
Undefined == [t |-> "undefined"]
JsonNull  == [t |-> "null"]
Bool(b)   == [t |-> "boolean", b |-> b]
Num(n)    == [t |-> "number", n |-> n]
Str(x)    == [t |-> "string", s |-> x]

Numbers == {0, 10, 20, 50, 70}

ConfigKeys == <<"flip_output_interpretation", "threshold", "uncertainty_range">>

\* An AudioCalibrationConfig object; a field that is not set is Undefined.
ConfigObject(flip, threshold, range) ==
  [t |-> "object", flip_output_interpretation |-> flip,
   threshold |-> threshold, uncertainty_range |-> range]

DefaultConfig == ConfigObject(Bool(FALSE), Num(50), Num(10))

Configs ==
  {ConfigObject(flip, threshold, range) :
     flip \in {Undefined, Bool(TRUE), Bool(FALSE)},
     threshold \in {Undefined} \cup {Num(n) : n \in Numbers},
     range \in {Undefined} \cup {Num(n) : n \in Numbers}}

\* Number.prototype.toString
NumberToString(n) ==
  CASE n = 0   -> "0"
    [] n = 10  -> "0.1"
    [] n = 20  -> "0.2"
    [] n = 50  -> "0.5"
    [] n = 70  -> "0.7"
    [] n = 100 -> "1"
    [] OTHER   -> "NaN"

\* value.toString()
toString(v) ==
  CASE v.t = "boolean" -> IF v.b THEN "true" ELSE "false"
    [] v.t = "number"  -> NumberToString(v.n)
    [] v.t = "string"  -> v.s

\* --------------------------------------------------------------- JSON
\* A text is the list of its tokens.  A string literal is its characters
\* between double quotes.
Quote(x) ==
  CASE x = "flip_output_interpretation" -> "\"flip_output_interpretation\""
    [] x = "threshold"         -> "\"threshold\""
    [] x = "uncertainty_range" -> "\"uncertainty_range\""
    [] x = "high"              -> "\"high\""
    [] OTHER                   -> "\"abc\""

Strings == {"flip_output_interpretation", "threshold", "uncertainty_range",
            "high", "abc"}

SyntaxError == [t |-> "SyntaxError"]

RECURSIVE JoinWith(_, _)
\* The members of a list of token lists, separated by `sep`.
JoinWith(parts, sep) ==
  IF parts = <<>> THEN <<>>
  ELSE IF Len(parts) = 1 THEN parts[1]
  ELSE parts[1] \o <<sep>> \o JoinWith(Tail(parts), sep)

\* JSON.stringify of a value that is not an object.
JsonValueText(v) ==
  CASE v.t = "boolean" -> IF v.b THEN "true" ELSE "false"
    [] v.t = "number"  -> NumberToString(v.n)
    [] v.t = "string"  -> Quote(v.s)
    [] v.t = "null"    -> "null"

\* A slip in the serializer: members whose value is false are left out.
JsonStringify_DropsFalse(v) ==
  IF v.t # "object" THEN <<JsonValueText(v)>>
  ELSE LET members == [i \in 1..3 |->
                         IF v[ConfigKeys[i]] \in {Undefined, Bool(FALSE)} THEN <<>>
                         ELSE <<Quote(ConfigKeys[i]), ":",
                                JsonValueText(v[ConfigKeys[i]])>>]
       IN <<"{">> \o JoinWith(SelectSeq(members, LAMBDA x : x # <<>>), ",")
                 \o <<"}">>

\* JSON.stringify: members whose value is undefined are left out.
JsonStringify(v) ==
  IF v.t # "object" THEN <<JsonValueText(v)>>
  ELSE LET members == [i \in 1..3 |->
                         IF v[ConfigKeys[i]] = Undefined THEN <<>>
                         ELSE <<Quote(ConfigKeys[i]), ":",
                                JsonValueText(v[ConfigKeys[i]])>>]
       IN <<"{">> \o JoinWith(SelectSeq(members, LAMBDA x : x # <<>>), ",")
                 \o <<"}">>

\* The value a single token stands for.
ParseToken(tok) ==
  IF tok = "true" THEN Bool(TRUE)
  ELSE IF tok = "false" THEN Bool(FALSE)
  ELSE IF tok = "null" THEN JsonNull
  ELSE IF \E n \in Numbers : NumberToString(n) = tok
    THEN Num(CHOOSE n \in Numbers : NumberToString(n) = tok)
  ELSE IF \E x \in Strings : Quote(x) = tok
    THEN Str(CHOOSE x \in Strings : Quote(x) = tok)
  ELSE SyntaxError

\* JSON.parse: the value, or the SyntaxError it throws.
JsonParse(text) ==
  IF text = <<>> THEN SyntaxError
  ELSE IF Len(text) = 1 THEN ParseToken(text[1])
  ELSE IF text[1] # "{" \/ text[Len(text)] # "}" THEN SyntaxError
  ELSE LET inner == SubSeq(text, 2, Len(text) - 1)
           wellFormed ==
             /\ Len(inner) % 4 = 3
             /\ \A i \in 1..Len(inner) :
                  CASE i % 4 = 1 -> \E x \in Strings : inner[i] = Quote(x)
                    [] i % 4 = 2 -> inner[i] = ":"
                    [] i % 4 = 3 -> ParseToken(inner[i]) # SyntaxError
                    [] OTHER     -> inner[i] = ","
           member(k) ==
             LET at == {i \in 1..Len(inner) : i % 4 = 1 /\ inner[i] = Quote(k)}
             IN IF at = {} THEN Undefined
                ELSE ParseToken(inner[(CHOOSE i \in at : \A j \in at : j <= i) + 2])
       IN IF inner = <<>> THEN ConfigObject(Undefined, Undefined, Undefined)
          ELSE IF ~wellFormed THEN SyntaxError
          ELSE ConfigObject(member(ConfigKeys[1]), member(ConfigKeys[2]),
                            member(ConfigKeys[3]))

\* ---------------------------------------------------- useAudioCalibration
NoEntry     == [t |-> "absent"]
Entry(text) == [t |-> "text", text |-> text]

\* What the store may hold when the hook is first used.
StoredEntries ==
  {NoEntry} \cup
  {Entry(text) : text \in
     {<<>>, <<"not", "json">>, <<"{", "\"threshold\"", ":">>,
      <<"null">>, <<"0.5">>, <<"\"abc\"">>, <<"{", "}">>,
      JsonStringify(ConfigObject(Bool(FALSE), Str("high"), Num(10))),
      JsonStringify(ConfigObject(Bool(TRUE), Num(70), Num(20))),
      JsonStringify(DefaultConfig)}}

\* The useState initializer (useApi.ts 200-216).
LoadConfig(entry, works) ==
  IF ~works THEN DefaultConfig                   \* getItem throws
  ELSE IF entry = NoEntry THEN DefaultConfig     \* saved is null
  ELSE IF entry.text = <<>> THEN DefaultConfig   \* saved is ''
  ELSE IF JsonParse(entry.text) = SyntaxError THEN DefaultConfig
  ELSE JsonParse(entry.text)

\* { ...base, ...partial }: a field the partial does not name keeps the
\* base's value; a base that is no object contributes no config field.
ShallowMerge(base, partial) ==
  LET field(k) == IF partial[k] # Undefined THEN partial[k]
                  ELSE IF base.t = "object" THEN base[k]
                  ELSE Undefined
  IN ConfigObject(field(ConfigKeys[1]), field(ConfigKeys[2]), field(ConfigKeys[3]))

\* The updates the calibration panel makes: one field at a time.
Partials ==
  {ConfigObject(Bool(b), Undefined, Undefined) : b \in BOOLEAN} \cup
  {ConfigObject(Undefined, Num(n), Undefined) : n \in {50, 70}} \cup
  {ConfigObject(Undefined, Undefined, Num(n)) : n \in {10, 20}}

\* A slip in the guards: a field is sent when it is truthy.
detectDeepfakeUrl_Truthy(config) ==
  LET sent(k) == config[k] \notin {Undefined, Bool(FALSE), Num(0)}
      params == [i \in 1..3 |->
                   IF sent(ConfigKeys[i])
                     THEN <<ConfigKeys[i], "=", toString(config[ConfigKeys[i]])>>
                     ELSE <<>>]
      set == SelectSeq(params, LAMBDA x : x # <<>>)
  IN IF config.t # "object" \/ set = <<>> THEN <<"/detect">>
     ELSE <<"/detect", "?">> \o JoinWith(set, "&")

\* detectDeepfake: the request URL built from `config` (api.ts 169-184), as
\* the list of its parts: path, '?', and name '=' value joined with '&'.
detectDeepfakeUrl(config) ==
  LET sent(k) == config[k] # Undefined
      params == [i \in 1..3 |->
                   IF sent(ConfigKeys[i])
                     THEN <<ConfigKeys[i], "=", toString(config[ConfigKeys[i]])>>
                     ELSE <<>>]
      set == SelectSeq(params, LAMBDA x : x # <<>>)
  IN IF config.t # "object" \/ set = <<>> THEN <<"/detect">>
     ELSE <<"/detect", "?">> \o JoinWith(set, "&")

\* ------------------------------------------------------------------ state
VARIABLES
  retryAttempts,       \* ApiService.retryAttempts: url -> retries made
  cancelHasConfig,     \* the build's axios puts the config on cancel errors
  req,                 \* per caller: its current client request
  pc,                  \* per caller: where its async function stands
  file,                \* per analyzeFile invocation: its file argument
  ret,                 \* per analyzeFile invocation: the resolved value
  state,               \* useFileAnalysis: the FileAnalysisState
  abortControllerRef,  \* useFileAnalysis: abortControllerRef.current
  aborted,             \* the abort controllers whose signal is aborted
  mounted,             \* the component using the hook is mounted
  overlapped,          \* invocations whose upload was in flight when a
                       \* later analyzeFile was called
  faults,              \* failed attempts met by the controller's requests
  args,                \* a call of a service function studied alone: its
                       \* arguments and what its collaborators answer
  returned,            \* that call's return value
  config,              \* useAudioCalibration: the config state
  renderedConfig,      \* the config of the last render, which the current
                       \* setConfig callback closes over
  audioConfig,         \* App: the config state of its own
                       \* useAudioCalibration(), handed to analyzeFile
  localStorage,        \* the entry under 'deepguard_audio_calibration'
  storeWorks           \* localStorage can be accessed without throwing

pipelineVars == <<retryAttempts, cancelHasConfig, req, pc, file, ret, state,
                  abortControllerRef, aborted, mounted, overlapped, faults>>

callVars == <<args, returned>>

calibrationVars == <<config, renderedConfig, audioConfig, localStorage, storeWorks>>

vars == <<pipelineVars, callVars, calibrationVars>>

NoController == 0
NoFile       == [name |-> <<>>, size |-> 0]
NoResult     == 0     \* result: undefined; a response is named by its call
Null         == 0     \* analyzeFile resolved to null
Pending      == -1    \* analyzeFile has not resolved

\* useState initial value, and the value resetAnalysis stores.
InitialState ==
  [isAnalyzing |-> FALSE, progress |-> 0, error |-> Absent,
   result |-> NoResult, uploadedFile |-> NoResult]

NoRequest ==
  [url |-> Absent, phase |-> "none", attempts |-> 0, delay |-> 0,
   only5xx |-> TRUE, fresh |-> TRUE, last |-> 0, sent |-> 0,
   signal |-> NoController, error |-> Absent]

\* client.get / client.post: the first HTTP attempt leaves at once.  `sent`
\* is the percentage of the body the attempt in flight has uploaded.
NewRequest(url, signal, ra) ==
  [url |-> url, phase |-> "flight", attempts |-> 1, delay |-> 0,
   only5xx |-> TRUE, fresh |-> (RetryCount(ra, url) = 0), last |-> 0,
   sent |-> 0, signal |-> signal, error |-> Absent]

\* The attempts of a call are counted up to "more than MAX_RETRIES + 1".
CountUp(n) == IF n > MAX_RETRIES + 1 THEN n ELSE n + 1

Live(r) == r.phase \in {"flight", "backoff", "abortPending"}

\* An aborted transfer has rejected its promise; the continuation runs in
\* the microtask queue, before any other event is handled.
NoMicrotask == \A p \in Procs : req[p].phase # "abortPending"

NoArgs   == [fn |-> "none"]
NoReturn == [pending |-> TRUE]

\* No service function is being studied alone.
NoCall == args = NoArgs /\ returned = NoReturn

\* `faults` when the failed attempts are not counted: the backend may fail
\* every attempt.
Unbudgeted == -1

\* The service and the controller as constructed.
InitController ==
  /\ retryAttempts = << >>
  /\ cancelHasConfig \in BOOLEAN
  /\ req = [p \in Procs |-> NoRequest]
  /\ pc = [p \in Procs |-> "idle"]
  /\ file = [p \in Analyzers |-> NoFile]
  /\ ret = [p \in Analyzers |-> Pending]
  /\ state = InitialState
  /\ abortControllerRef = NoController
  /\ aborted = {}
  /\ mounted = TRUE
  /\ overlapped = {}

InitPipeline == InitController /\ faults = 0

\* useAudioCalibration over an empty store.
NoCalibration ==
  /\ storeWorks = TRUE /\ localStorage = NoEntry
  /\ config = DefaultConfig /\ renderedConfig = DefaultConfig
  /\ audioConfig = DefaultConfig

Init == InitPipeline /\ NoCall /\ NoCalibration

\* setState: React drops updates of an unmounted component.
SetState(new) == state' = IF mounted THEN new ELSE state

\* Another caller changed the retry counter of `url` while r[q] was live.
Disturb(r, p, url) ==
  [q \in Procs |->
     IF q # p /\ r[q].url = url /\ Live(r[q])
       THEN [r[q] EXCEPT !.fresh = FALSE] ELSE r[q]]

\* ----------------------------------------------- continuations of callers
\* What the awaiting caller does once its client request has settled.
\* `ok` tells resolution from rejection, `thrown` is the rejection, r and ra
\* are req and retryAttempts as the interceptor left them.
Settle(p, ok, thrown, r, ra) ==
  LET settled == [r EXCEPT ![p].phase = IF ok THEN "ok" ELSE "failed",
                           ![p].sent = 0,
                           ![p].error = IF ok THEN Absent ELSE thrown.message]
      \* of a settled call only the outcome is kept
      done == [settled EXCEPT ![p] =
                 IF ok THEN [NoRequest EXCEPT !.url = settled[p].url,
                                              !.phase = "ok"]
                 ELSE IF p \in Pollers
                   THEN [settled[p] EXCEPT !.url = Absent, !.error = Absent]
                 ELSE [NoRequest EXCEPT !.url = settled[p].url,
                                        !.phase = "failed",
                                        !.last = settled[p].last,
                                        !.error = settled[p].error]]
  IN
  /\ retryAttempts' = ra
  /\ UNCHANGED <<cancelHasConfig, file, aborted, mounted, overlapped>>
  /\ IF p \in Pollers
       THEN \* getHealth / getSupportedFormats called by a SWR hook
            /\ req' = done
            /\ pc' = [pc EXCEPT ![p] = "idle"]
            /\ UNCHANGED <<ret, state, abortControllerRef>>
     ELSE IF pc[p] = "validate"
       THEN \* validateFile returns; analyzeFile goes on (useApi.ts 74-106)
            LET validation == IF ok THEN ValidateAgainst(file[p], SupportedFormats)
                              ELSE ValidateLookupFailed
            IN IF ~validation.valid
                 THEN /\ SetState([state EXCEPT !.error = validation.error,
                                                !.isAnalyzing = FALSE])
                      /\ req' = done
                      /\ pc' = [pc EXCEPT ![p] = "done"]
                      /\ ret' = [ret EXCEPT ![p] = Null]
                      /\ UNCHANGED abortControllerRef
                 ELSE /\ SetState([isAnalyzing |-> TRUE, progress |-> 0,
                                   error |-> Absent, result |-> NoResult,
                                   uploadedFile |-> p])
                      /\ abortControllerRef' = p
                      /\ req' = [r EXCEPT ![p] = NewRequest(DetectUrl, p, ra)]
                      /\ pc' = [pc EXCEPT ![p] = "detect"]
                      /\ UNCHANGED ret
     ELSE \* detectDeepfake settles; analyzeFile finishes (useApi.ts 108-125)
          LET message == detectDeepfakeCatch(thrown)
              errorMessage == IF message = "" THEN AnalysisFailedMsg ELSE message
          IN
          /\ IF ok
               THEN SetState([state EXCEPT !.isAnalyzing = FALSE,
                                           !.progress = 100, !.result = p])
               ELSE SetState([state EXCEPT !.isAnalyzing = FALSE,
                                           !.error = errorMessage])
          /\ req' = [done EXCEPT ![p].error = IF ok THEN Absent ELSE message]
          /\ pc' = [pc EXCEPT ![p] = "done"]
          /\ ret' = [ret EXCEPT ![p] = IF ok THEN p ELSE Null]
          /\ UNCHANGED abortControllerRef

NoThrown == [retry |-> FALSE, message |-> Absent, isCancel |-> FALSE]

\* The response interceptor's success handler (api.ts 44-51).
OnFulfilled(p) ==
  LET url == req[p].url
      ra  == MapDelete(retryAttempts, url)
      r   == IF url \in DOMAIN retryAttempts THEN Disturb(req, p, url) ELSE req
  IN Settle(p, TRUE, NoThrown, r, ra)

\* The response interceptor's error handler (api.ts 52-54, 58-90).
OnRejected(p, error, status) ==
  LET url == req[p].url
      d   == handleResponseError(error, url, retryAttempts)
      currentRetries == RetryCount(retryAttempts, url)
      seen == [req EXCEPT ![p].only5xx = @ /\ status >= 500 /\ status < 600,
                          ![p].last = status]
  IN IF d.retry
       THEN /\ retryAttempts' = MapSet(retryAttempts, url, currentRetries + 1)
            /\ req' = [Disturb(seen, p, url) EXCEPT
                         ![p].phase = "backoff", ![p].sent = 0,
                         ![p].delay = BackoffDelay(currentRetries)]
            /\ UNCHANGED <<cancelHasConfig, pc, file, ret, state,
                           abortControllerRef, aborted, mounted, overlapped>>
       ELSE Settle(p, FALSE, d, seen, retryAttempts)

\* ---------------------------------------------------------------- actions
ProgressPercents == {50, 100}

\* analyzeFile is called: validateFile starts with GET /supported-formats.
AnalyzeFile(p, f) ==
  /\ mounted /\ NoMicrotask
  /\ p \in Analyzers /\ pc[p] = "idle"
  /\ \A q \in Analyzers : q < p => pc[q] # "idle"
  /\ pc' = [pc EXCEPT ![p] = "validate"]
  /\ file' = [file EXCEPT ![p] = f]
  /\ req' = [req EXCEPT ![p] = NewRequest(FormatsUrl, NoController, retryAttempts)]
  /\ overlapped' = overlapped \cup
       {q \in Analyzers : pc[q] = "detect" /\ req[q].phase = "flight"}
  /\ UNCHANGED <<retryAttempts, cancelHasConfig, ret, state,
                 abortControllerRef, aborted, mounted>>
  /\ UNCHANGED <<faults, callVars, calibrationVars>>

\* getHealth / getSupportedFormats called from useHealth, useSupportedFormats.
CallApi(p, url) ==
  /\ NoMicrotask
  /\ p \in Pollers /\ pc[p] = "idle"
  /\ pc' = [pc EXCEPT ![p] = "call"]
  /\ req' = [req EXCEPT ![p] = NewRequest(url, NoController, retryAttempts)]
  /\ UNCHANGED <<retryAttempts, cancelHasConfig, file, ret, state,
                 abortControllerRef, aborted, mounted, overlapped>>
  /\ UNCHANGED <<faults, callVars, calibrationVars>>

\* A failed attempt of a controller request uses up the fault budget.
Fault(p) ==
  IF p \in Analyzers /\ faults # Unbudgeted
    THEN faults < MaxFaults /\ faults' = faults + 1
    ELSE UNCHANGED faults

\* The backend answers the attempt in flight.
HttpReply(p, status, body) ==
  /\ NoMicrotask
  /\ req[p].phase = "flight"
  /\ IF status >= 200 /\ status < 300
       THEN OnFulfilled(p) /\ UNCHANGED faults
       ELSE Fault(p) /\ OnRejected(p, StatusError(status, body), status)
  /\ UNCHANGED <<callVars, calibrationVars>>

\* The attempt in flight ends without a response.
TransportError(p, code) ==
  /\ NoMicrotask
  /\ req[p].phase = "flight"
  /\ Fault(p)
  /\ OnRejected(p, TransportFailure(code), 0)
  /\ UNCHANGED <<callVars, calibrationVars>>

\* The backoff timer fires: client.request(config).  axios refuses to send
\* a request whose signal is already aborted and rejects it as cancelled.
BackoffElapsed(p) ==
  /\ NoMicrotask
  /\ req[p].phase = "backoff"
  /\ IF req[p].signal \in aborted
       THEN OnRejected(p, CancelError(cancelHasConfig), 0)
       ELSE /\ req' = [req EXCEPT ![p].phase = "flight", ![p].delay = 0,
                                   ![p].attempts = CountUp(@)]
            /\ UNCHANGED <<retryAttempts, cancelHasConfig, pc, file, ret, state,
                           abortControllerRef, aborted, mounted, overlapped>>
  /\ UNCHANGED <<faults, callVars, calibrationVars>>

\* The rejection of an aborted transfer reaches the response interceptor.
AbortDelivered(p) ==
  /\ req[p].phase = "abortPending"
  /\ OnRejected(p, CancelError(cancelHasConfig), 0)
  /\ UNCHANGED <<faults, callVars, calibrationVars>>

\* onUploadProgress of the transfer in flight: within one attempt the
\* bytes sent only grow; client.request(config) of a retry uploads the body
\* again from its start, with the same onUploadProgress.
UploadProgress(p, percentage) ==
  /\ NoMicrotask
  /\ p \in Analyzers /\ pc[p] = "detect" /\ req[p].phase = "flight"
  /\ percentage > req[p].sent
  /\ req' = [req EXCEPT ![p].sent = percentage]
  /\ SetState([state EXCEPT !.progress = percentage])
  /\ UNCHANGED <<retryAttempts, cancelHasConfig, pc, file, ret,
                 abortControllerRef, aborted, mounted, overlapped>>
  /\ UNCHANGED <<faults, callVars, calibrationVars>>

\* AbortController.abort() of controller c: a transfer in flight on its
\* signal is torn down and its promise rejected.
Abort(c, r) ==
  [q \in Procs |->
     IF r[q].signal = c /\ r[q].phase = "flight"
       THEN [r[q] EXCEPT !.phase = "abortPending"] ELSE r[q]]

cancelAnalysis ==
  /\ mounted /\ NoMicrotask
  /\ IF abortControllerRef # NoController
       THEN /\ aborted' = aborted \cup {abortControllerRef}
            /\ req' = Abort(abortControllerRef, req)
            /\ SetState([state EXCEPT !.isAnalyzing = FALSE,
                                      !.error = UserCancelledMsg])
       ELSE UNCHANGED <<aborted, req, state>>
  /\ UNCHANGED <<retryAttempts, cancelHasConfig, pc, file, ret,
                 abortControllerRef, mounted, overlapped>>
  /\ UNCHANGED <<faults, callVars, calibrationVars>>

resetAnalysis ==
  /\ mounted /\ NoMicrotask
  /\ SetState(InitialState)
  /\ IF abortControllerRef # NoController
       THEN /\ aborted' = aborted \cup {abortControllerRef}
            /\ req' = Abort(abortControllerRef, req)
            /\ abortControllerRef' = NoController
       ELSE UNCHANGED <<aborted, req, abortControllerRef>>
  /\ UNCHANGED <<retryAttempts, cancelHasConfig, pc, file, ret,
                 mounted, overlapped>>
  /\ UNCHANGED <<faults, callVars, calibrationVars>>

\* The cleanup of the unmount effect.
Unmount ==
  /\ mounted /\ NoMicrotask
  /\ mounted' = FALSE
  /\ IF abortControllerRef # NoController
       THEN /\ aborted' = aborted \cup {abortControllerRef}
            /\ req' = Abort(abortControllerRef, req)
       ELSE UNCHANGED <<aborted, req>>
  /\ UNCHANGED <<retryAttempts, cancelHasConfig, pc, file, ret, state,
                 abortControllerRef, overlapped>>
  /\ UNCHANGED <<faults, callVars, calibrationVars>>

Next ==
  \/ \E p \in Analyzers, f \in Files : AnalyzeFile(p, f)
  \/ \E p \in Procs, status \in Statuses, body \in Bodies : HttpReply(p, status, body)
  \/ \E p \in Procs, code \in TransportCodes : TransportError(p, code)
  \/ \E p \in Procs : BackoffElapsed(p)
  \/ \E p \in Procs : AbortDelivered(p)
  \/ \E p \in Analyzers, percentage \in ProgressPercents : UploadProgress(p, percentage)
  \/ cancelAnalysis
  \/ resetAnalysis
  \/ Unmount

Spec == Init /\ [][Next]_vars

\* The ApiService alone: callers of getHealth, getSupportedFormats and
\* detectDeepfake (without abort signal) sharing the one retryAttempts map.
NextApi ==
  \/ \E p \in Pollers, url \in Urls : CallApi(p, url)
  \/ \E p \in Pollers, status \in Statuses : HttpReply(p, status, TextBody)
  \/ \E p \in Pollers, code \in TransportCodes : TransportError(p, code)
  \/ \E p \in Pollers : BackoffElapsed(p)

\* No abort signal is passed in these calls: the service behaves alike
\* under either axios release.
InitApi == Init /\ ~cancelHasConfig

SpecApi == InitApi /\ [][NextApi]_vars

\* --------------------------------------------------- validateFile alone
\* File names over a few characters, sizes around the limit, and what
\* GET /supported-formats answers (or that it failed).
NameChars == {".", "w", "W", "a", "v"}
FileNames == UNION {[1..n -> NameChars] : n \in 0..MaxNameLen}
FileSizes == {0, MaxFileSize, MaxFileSize + 1, 101 * 1024 * 1024}

FormatLists ==
  {SupportedFormats,
   [audio |-> {<<".", "w", "a", "w">>}, image |-> {<<".", "v", "a", "w">>}],
   [audio |-> {}, image |-> {}]}

ValidateArgs ==
  [fn : {"validateFile"},
   file : [name : FileNames, size : FileSizes],
   formats : FormatLists,
   lookupOk : BOOLEAN]

\* validateFile(file): getSupportedFormats resolves or rejects, then the
\* checks of the try block or the catch branch.
validateFile ==
  /\ args.fn = "validateFile" /\ returned = NoReturn
  /\ returned' = IF args.lookupOk
                   THEN ValidateAgainst(args.file, args.formats)
                   ELSE ValidateLookupFailed
  /\ UNCHANGED <<args, pipelineVars, calibrationVars>>

InitValidate ==
  /\ InitPipeline /\ ~cancelHasConfig /\ NoCalibration
  /\ args \in ValidateArgs /\ returned = NoReturn

NextValidate == validateFile

SpecValidate == InitValidate /\ [][NextValidate]_vars

\* ------------------------------------------------- detectDeepfake's URL
DetectArgs == [fn : {"detectDeepfake"}, config : Configs \cup {Undefined}]

\* detectDeepfake(file, config) up to client.post(url, ...).
detectDeepfake ==
  /\ args.fn = "detectDeepfake" /\ returned = NoReturn
  /\ returned' = [url |-> detectDeepfakeUrl(args.config)]
  /\ UNCHANGED <<args, pipelineVars, calibrationVars>>

InitDetectUrl ==
  /\ InitPipeline /\ ~cancelHasConfig /\ NoCalibration
  /\ args \in DetectArgs /\ returned = NoReturn

NextDetectUrl == detectDeepfake

SpecDetectUrl == InitDetectUrl /\ [][NextDetectUrl]_vars

\* ------------------------------------------- useAudioCalibration alone
\* A slip in resetConfig: the persisted entry is left in place.
resetConfig_KeepsEntry ==
  /\ config' = DefaultConfig
  /\ UNCHANGED <<renderedConfig, audioConfig, localStorage, storeWorks,
                 callVars, pipelineVars>>

\* resetConfig (useApi.ts 230-242); a failing removeItem is swallowed.
resetConfig ==
  /\ config' = DefaultConfig
  /\ localStorage' = IF storeWorks THEN NoEntry ELSE localStorage
  /\ UNCHANGED <<renderedConfig, audioConfig, storeWorks, callVars, pipelineVars>>

\* setConfig(newConfig) through the callback of the last render
\* (useApi.ts 218-228); a failing setItem is swallowed.
setConfig(newConfig) ==
  LET updatedConfig == ShallowMerge(renderedConfig, newConfig)
  IN /\ config' = updatedConfig
     /\ localStorage' = IF storeWorks THEN Entry(JsonStringify(updatedConfig))
                         ELSE localStorage
     /\ UNCHANGED <<renderedConfig, audioConfig, storeWorks, callVars, pipelineVars>>

\* React renders the component again: the hook returns the new config and
\* a setConfig callback that closes over it.
Rerender ==
  /\ renderedConfig # config
  /\ renderedConfig' = config
  /\ UNCHANGED <<config, audioConfig, localStorage, storeWorks, callVars, pipelineVars>>

\* The page is loaded again: App and the AudioCalibration panel mount
\* anew, and the useAudioCalibration of each reads the store.
Reload ==
  /\ config' = LoadConfig(localStorage, storeWorks)
  /\ renderedConfig' = config'
  /\ audioConfig' = LoadConfig(localStorage, storeWorks)
  /\ UNCHANGED <<localStorage, storeWorks, callVars, pipelineVars>>

InitCalibration ==
  /\ InitPipeline /\ ~cancelHasConfig /\ NoCall
  /\ storeWorks \in BOOLEAN
  /\ localStorage \in StoredEntries
  /\ config = LoadConfig(localStorage, storeWorks)
  /\ renderedConfig = config
  /\ audioConfig = LoadConfig(localStorage, storeWorks)

NextCalibration ==
  \/ \E newConfig \in Partials : setConfig(newConfig)
  \/ resetConfig
  \/ Rerender
  \/ Reload

SpecCalibration == InitCalibration /\ [][NextCalibration]_vars

\* ------------------------------------ App and the AudioCalibration panel
FileTypes == {"audio/wav", "image/png"}

\* file.type.startsWith('audio/')
IsAudio(type) == type = "audio/wav"

\* App.handleFileSelect(file) up to its call analyzeFile(file, config):
\* `args` records the arguments of that call.  The config is App's
\* audioConfig; App renders <AudioCalibration> without onConfigChange, and
\* the panel's setConfig / resetConfig act on the panel's own hook state.
handleFileSelect(type) ==
  /\ args' = [fn |-> "analyzeFile", type |-> type,
              config |-> IF IsAudio(type) THEN audioConfig ELSE Undefined]
  /\ UNCHANGED <<returned, pipelineVars, calibrationVars>>

NextPanel ==
  \/ \E newConfig \in Partials : setConfig(newConfig)
  \/ resetConfig
  \/ Rerender
  \/ Reload
  \/ \E type \in FileTypes : handleFileSelect(type)

SpecPanel == InitCalibration /\ [][NextPanel]_vars

\* ------------------------------------------------- formatApiError alone
DetailText == "backend detail text"

ErrorStatuses == {400, 401, 404, 422, 500, 503}

\* Structured bodies with and without the two fields, and a body of text.
ErrorBodies ==
  {[isObject |-> TRUE, error |-> e, detail |-> d] :
     e \in {Absent, "", BackendErrorText}, d \in {Absent, "", DetailText}}
  \cup {TextBody}

FormatArgs ==
  [fn : {"formatApiError"},
   error : {StatusError(st, body) : st \in ErrorStatuses, body \in ErrorBodies}
           \cup {TransportFailure(code) : code \in TransportCodes}
           \cup {CancelError(withConfig) : withConfig \in BOOLEAN}]

\* formatApiError(error).error, the text handleResponseError throws.
FormatError ==
  /\ args.fn = "formatApiError" /\ returned = NoReturn
  /\ returned' = [error |-> formatApiError(args.error)]
  /\ UNCHANGED <<args, pipelineVars, calibrationVars>>

InitFormat ==
  /\ InitPipeline /\ ~cancelHasConfig /\ NoCalibration
  /\ args \in FormatArgs /\ returned = NoReturn

NextFormat == FormatError

SpecFormat == InitFormat /\ [][NextFormat]_vars

\* ------------------------------------------------ onUploadProgress alone
\* Math.round of the quotient num / den of two non-negative integers:
\* the nearest integer, a half rounding up.
MathRound(num, den) == (2 * num + den) \div (2 * den)

\* Transfers of these many bytes, observed after 0..total bytes; total is 0
\* when the length of the upload is not computable.
ProgressTotals == {0, 3, 7, 200}

ProgressArgs ==
  UNION {[fn : {"onUploadProgress"}, hasOnProgress : BOOLEAN,
          loaded : 0..total, total : {total}] : total \in ProgressTotals}

\* The onUploadProgress callback detectDeepfake hands to client.post:
\* what it reports to onProgress for one progress event, if anything.
onUploadProgress ==
  /\ args.fn = "onUploadProgress" /\ returned = NoReturn
  /\ returned' = IF args.hasOnProgress /\ args.total # 0
                   THEN [called |-> TRUE, loaded |-> args.loaded,
                         total |-> args.total,
                         percentage |-> MathRound(args.loaded * 100, args.total)]
                   ELSE [called |-> FALSE]
  /\ UNCHANGED <<args, pipelineVars, calibrationVars>>

InitProgress ==
  /\ InitPipeline /\ ~cancelHasConfig /\ NoCalibration
  /\ args \in ProgressArgs /\ returned = NoReturn

NextProgress == onUploadProgress

SpecProgress == InitProgress /\ [][NextProgress]_vars

\* ------------------------------------- the retry counters of one path
\* The URL detectDeepfake posts to for an audio file analysed with the
\* default calibration: detectDeepfakeUrl(DefaultConfig) as one string, the
\* value of config.url that keys retryAttempts.
DetectAudioUrl ==
  "/detect?flip_output_interpretation=false&threshold=0.5&uncertainty_range=0.1"

PathUrls == {FormatsUrl, DetectUrl, DetectAudioUrl}

\* The endpoint path of a request URL: the URL without its query string.
PathOf(url) == IF url = DetectAudioUrl THEN DetectUrl ELSE url

\* getSupportedFormats and detectDeepfake, with and without a calibration
\* config, called one after the other.
NextPaths ==
  \/ \E p \in Pollers, url \in PathUrls : CallApi(p, url)
  \/ \E p \in Pollers, status \in Statuses : HttpReply(p, status, TextBody)
  \/ \E p \in Pollers : BackoffElapsed(p)

SpecPaths == InitApi /\ [][NextPaths]_vars

\* ------------------------------------------- analyzeFile calls run out
\* One analyzeFile call of a controller that has made none, against a
\* backend that may fail any number of attempts, with cancelAnalysis and
\* resetAnalysis called at any time.
NextLive ==
  \/ \E p \in Analyzers, f \in Files :
       (\A q \in Analyzers : pc[q] = "idle") /\ AnalyzeFile(p, f)
  \/ \E p \in Analyzers, status \in Statuses, body \in Bodies : HttpReply(p, status, body)
  \/ \E p \in Analyzers, code \in TransportCodes : TransportError(p, code)
  \/ \E p \in Analyzers : BackoffElapsed(p)
  \/ \E p \in Analyzers : AbortDelivered(p)
  \/ cancelAnalysis
  \/ resetAnalysis

InitLive == InitController /\ faults = Unbudgeted /\ NoCall /\ NoCalibration

\* The attempt in flight of call p ends: with a response, a transport
\* error or the timeout of the client (ECONNABORTED).
AttemptEnds(p) ==
  \/ \E status \in Statuses, body \in Bodies : HttpReply(p, status, body)
  \/ \E code \in TransportCodes : TransportError(p, code)

\* Every attempt ends, every backoff timer fires and every rejection of an
\* aborted transfer is delivered.
Fairness ==
  \A p \in Analyzers :
    /\ WF_vars(AttemptEnds(p))
    /\ WF_vars(BackoffElapsed(p))
    /\ WF_vars(AbortDelivered(p))

SpecLive == InitLive /\ [][NextLive]_vars /\ Fairness

\* ----------------------------------------------------------------- claims

\* What C1 says of one step of call p: a 5xx answer to a call that has only
\* met 5xx answers either schedules the next retry, after 2^(k-1) seconds
\* before retry k and at most MAX_RETRIES times, or ends the call once
\* MAX_RETRIES + 1 attempts were made.
RetryLadder(p) ==
  (/\ req[p].phase = "flight"
   /\ req'[p].phase \in {"backoff", "failed"}
   /\ req'[p].only5xx)
  => /\ req'[p].phase = "backoff" =>
          /\ req[p].attempts <= MAX_RETRIES
          /\ req'[p].delay = (2 ^ (req[p].attempts - 1)) * 1000
     /\ req'[p].phase = "failed" => req[p].attempts = MAX_RETRIES + 1

\* C1 as claimed: every call whose attempts are all answered with a 5xx
\* status makes exactly 4 attempts, waits 1 s, 2 s and 4 s before the
\* retries and then fails, whatever calls were made to its path before.
C1_AsClaimed == [][\A p \in Pollers : RetryLadder(p)]_vars

\* C1 as amended: the same for every call that starts while the retry
\* counter of its URL is absent and during which no other call changes
\* that counter.
C1_RetryLadderWhenFresh ==
  [][\A p \in Pollers : req[p].fresh => RetryLadder(p)]_vars

\* A call that began with no retry counter has failed after its fourth
\* attempt was answered with a 5xx status like the three before.
C1_Witness ==
  \E p \in Pollers :
    /\ req[p].phase = "failed" /\ req[p].only5xx /\ req[p].fresh
    /\ req[p].attempts = MAX_RETRIES + 1

\* C2: a request answered with a 4xx status is not retried: the call
\* fails in that step, no backoff is scheduled, no further attempt is made
\* and the retry counters are left as they were.
C2_NoRetryOn4xx ==
  [][\A p \in Procs :
        (/\ req[p].phase = "flight" /\ req'[p].phase # "flight"
         /\ req'[p].last >= 400 /\ req'[p].last < 500)
        => /\ req'[p].phase = "failed"
           /\ req'[p].delay = 0
           /\ (p \in Pollers => req'[p].attempts = req[p].attempts)
           /\ retryAttempts' = retryAttempts]_vars

\* A call has failed on a 404 answer to its only attempt.
C2_Witness ==
  \E p \in Pollers :
    /\ req[p].phase = "failed" /\ req[p].last = 404
    /\ req[p].attempts = 1

\* C3: once the abort signal of a detect call is triggered during a backoff
\* wait, the call stays in that wait until it fails with the cancellation
\* error: no further attempt is made and no further backoff is scheduled.
C3_AbortDuringBackoff ==
  [][\A p \in Analyzers :
        (req[p].phase = "backoff" /\ req[p].signal \in aborted) =>
          \/ /\ req'[p].phase = "backoff"
             /\ req'[p].delay = req[p].delay
             /\ (p \in Pollers => req'[p].attempts = req[p].attempts)
          \/ /\ req'[p].phase = "failed"
             /\ req'[p].error = UploadCancelledMsg]_vars

\* C4: the rejection of a transfer aborted in flight is not retried, leaves
\* the retry counters alone and makes detectDeepfake reject with
\* 'Upload was cancelled'.
C4_AbortInFlight ==
  [][\A p \in Analyzers :
        req[p].phase = "abortPending" =>
          \/ req'[p].phase = "abortPending"
          \/ /\ req'[p].phase = "failed"
             /\ req'[p].error = UploadCancelledMsg
             /\ retryAttempts' = retryAttempts]_vars

InFlight(p) == pc[p] = "detect" /\ req[p].phase = "flight"

\* C5: at most one detect request of the controller is in flight.
C5_OneInFlight == Cardinality({p \in Analyzers : InFlight(p)}) <= 1

\* C6: once a later analyzeFile call has sent its request, the response of
\* a call whose upload that later call found in flight is never the
\* session's result.
C6_OnlyLatestResult ==
  \A p \in overlapped :
    (\E q \in Analyzers : q > p /\ req[q].url = DetectUrl) => state.result # p

\* C7: cancelAnalysis leaves the session state unchanged when no analysis
\* is uploading or awaiting a result.
C7_CancelIdleNoOp ==
  [][(cancelAnalysis /\ \A p \in Analyzers : pc[p] # "detect")
        => state' = state]_vars

\* C8: the error set by cancelAnalysis is still 'Analysis cancelled by
\* user' once the aborted request has settled (no other analyzeFile call
\* being under way).
C8_CancelMessageStays ==
  [][\A p \in Analyzers :
        (/\ state.error = UserCancelledMsg
         /\ pc[p] = "detect" /\ req[p].signal \in aborted
         /\ pc'[p] = "done"
         /\ \A q \in Analyzers \ {p} : pc[q] \in {"idle", "done"})
        => state'.error = UserCancelledMsg]_vars

\* C9: after resetAnalysis the session stays idle until the next
\* analyzeFile call: the continuations of the operation that reset
\* cancelled do not change the state.
C9_ResetStaysIdle ==
  [][\A p \in Analyzers :
        (/\ state = InitialState /\ abortControllerRef = NoController
         /\ pc[p] = "detect" /\ req[p].signal \in aborted
         /\ \A q \in Analyzers \ {p} : pc[q] \in {"idle", "done"}
         /\ pc'[p] = "done")
        => state' = InitialState]_vars

\* C10: after the unmount no detect request of the controller is in flight.
C10_NothingInFlightAfterUnmount ==
  ~mounted => \A p \in Analyzers : ~InFlight(p)

\* C11: analyzeFile always resolves, never rejects.  While the component
\* is mounted (an unmounted component has no session state), when it
\* resolves to null the state has isAnalyzing = false and a non-empty error
\* message, and when it resolves to a response that response is the
\* state's result, with progress = 100 and isAnalyzing = false.
C11_AnalyzeFileNeverRejects ==
  [][\A p \in Analyzers :
        /\ (pc'[p] = "done") = (ret'[p] # Pending)
        /\ (ret[p] = Pending /\ ret'[p] # Pending) =>
              /\ ret'[p] \in {Null, p}
              /\ req'[p].phase \in {"ok", "failed"}
              /\ (ret'[p] = p) =
                    (req'[p].phase = "ok" /\ req'[p].url = DetectUrl)
              /\ (mounted' /\ ret'[p] = Null) =>
                    /\ ~state'.isAnalyzing
                    /\ state'.error \notin {Absent, ""}
              /\ (mounted' /\ ret'[p] = p) =>
                    /\ state'.result = p
                    /\ state'.progress = 100
                    /\ ~state'.isAnalyzing]_vars

\* A call resolved to null after its upload timed out, another after the
\* format lookup failed, and the session shows the failure.
C11_Witness ==
  /\ mounted
  /\ \E p, q \in Analyzers :
       /\ p # q /\ ret[p] = Null /\ ret[q] = Null
       /\ req[p].url = DetectUrl /\ req[p].error = TimeoutMsg
       /\ req[q].url = FormatsUrl /\ req[q].phase = "failed"
  /\ ~state.isAnalyzing /\ state.error \in {TimeoutMsg, ValidateFailMsg}

\* C12: a call sends its detect request only in the step in which its own
\* format lookup has succeeded for a file of a supported extension and an
\* accepted size; a call whose validation fails ends there: it never sends
\* a detect request, and (the component being mounted) isAnalyzing is false
\* and the state's error is the validator's reason.
C12_DetectOnlyAfterValid ==
  [][\A p \in Analyzers :
        /\ (req'[p].url = DetectUrl /\ req[p].url # DetectUrl) =>
              /\ pc[p] = "validate" /\ pc'[p] = "detect"
              /\ req[p].url = FormatsUrl /\ req[p].phase = "flight"
              /\ FormatsUrl \notin DOMAIN retryAttempts'
              /\ file'[p] = file[p]
              /\ file[p].name = <<"a", ".", "W", "a", "v">>
              /\ file[p].size <= 104857600
        /\ (pc[p] = "validate" /\ pc'[p] # "validate" /\ pc'[p] # "detect") =>
              /\ pc'[p] = "done" /\ ret'[p] = Null
              /\ req'[p].url = FormatsUrl
              /\ mounted' =>
                    /\ ~state'.isAnalyzing
                    /\ state'.error =
                         IF req'[p].phase = "failed" THEN ValidateFailMsg
                         ELSE UnsupportedMsg
        /\ pc[p] = "done" => (pc'[p] = "done" /\ req'[p] = req[p])]_vars

\* One call was stopped by the validator, for an unsupported extension,
\* and shows the reason; another, of a supported file, has sent its detect
\* request.
C12_Witness ==
  /\ mounted
  /\ \E p, q \in Analyzers :
       /\ pc[p] = "done" /\ req[p].url = FormatsUrl /\ req[p].phase = "ok"
       /\ file[p] = XyzFile /\ state.error = UnsupportedMsg
       /\ pc[q] = "detect" /\ req[q].url = DetectUrl /\ file[q] = WavFile

C14_NoDotInvalid ==
  (returned # NoReturn /\ \A i \in 1..Len(args.file.name) : args.file.name[i] # ".")
    => ~returned.valid

\* C19: in the URL detectDeepfake posts to, each of the three query
\* parameters occurs exactly when the config has that field defined, once
\* and with the field's value; with no config or no defined field the URL
\* is '/detect' alone.
C19_QueryParams ==
  returned # NoReturn =>
    LET url == returned.url
        cfg == args.config
        defined(k) == cfg # Undefined /\ cfg[k] # Undefined
        at(k) == {i \in 1..Len(url) : url[i] = k}
    IN /\ url[1] = "/detect"
       /\ \A j \in 1..3 :
            LET k == ConfigKeys[j] IN
            IF defined(k)
              THEN \E i \in 2..(Len(url) - 2) :
                     /\ at(k) = {i}
                     /\ url[i - 1] \in {"?", "&"}
                     /\ url[i + 1] = "="
                     /\ url[i + 2] = toString(cfg[k])
              ELSE at(k) = {}
       /\ (\A j \in 1..3 : ~defined(ConfigKeys[j])) => url = <<"/detect">>
       /\ Len(url) > 1 => url[2] = "?" /\ Len(url) % 4 = 1

\* A URL was built for flip = false and threshold = 0 with no
\* uncertainty_range: two parameters.
C19_Witness ==
  /\ returned # NoReturn
  /\ args.config = ConfigObject(Bool(FALSE), Num(0), Undefined)
  /\ returned.url = <<"/detect", "?", "flip_output_interpretation", "=", "false",
                      "&", "threshold", "=", "0">>

\* C15: every setConfig(partial) call leaves the in-memory config equal to
\* the shallow merge of the partial over the in-memory config the calls
\* before it produced, also when the component has not rendered again
\* since the previous call.
C15_MergeLosesNothing ==
  [][\A newConfig \in Partials :
        setConfig(newConfig) => config' = ShallowMerge(config, newConfig)]_vars

\* C16: with a working store, what a fresh initialization would load is
\* at every moment the in-memory config, so that a reload returns exactly
\* the config held before it; and setConfig({threshold: 0.7}) on a hook
\* that holds and has rendered the defaults persists a config that loads
\* as threshold 0.7, flip false and uncertainty_range 0.1.
C16_RoundTrip ==
  [][storeWorks =>
        /\ LoadConfig(localStorage', TRUE) = config'
        /\ Reload => config' = config
        /\ (/\ config = ConfigObject(Bool(FALSE), Num(50), Num(10))
            /\ renderedConfig = config
            /\ setConfig(ConfigObject(Undefined, Num(70), Undefined))) =>
              LoadConfig(localStorage', TRUE) =
                ConfigObject(Bool(FALSE), Num(70), Num(10))]_vars

\* threshold 0.7 was set from the defaults and persisted with the other
\* two fields.
C16_Witness ==
  /\ storeWorks
  /\ config = ConfigObject(Bool(FALSE), Num(70), Num(10))
  /\ localStorage =
       Entry(<<"{", "\"flip_output_interpretation\"", ":", "false", ",",
               "\"threshold\"", ":", "0.7", ",",
               "\"uncertainty_range\"", ":", "0.1", "}">>)

\* C17 as claimed: resetConfig leaves the in-memory config at the defaults
\* and no entry under the key.
C17_AsClaimed ==
  [][resetConfig =>
        /\ config' = ConfigObject(Bool(FALSE), Num(50), Num(10))
        /\ localStorage' = NoEntry]_vars

\* C17 as amended: resetConfig leaves the in-memory config at the defaults,
\* and no entry under the key when the store can be accessed.
C17_ResetRestoresDefaults ==
  [][resetConfig =>
        /\ config' = ConfigObject(Bool(FALSE), Num(50), Num(10))
        /\ storeWorks => localStorage' = NoEntry]_vars

\* A reset has left the defaults and no entry; the callback of the last
\* render still closes over the changed config held before it.
C17_Witness ==
  /\ storeWorks
  /\ config = DefaultConfig /\ localStorage = NoEntry
  /\ renderedConfig = ConfigObject(Bool(TRUE), Num(70), Num(20))

\* C18: whatever the store holds, what an initialization loads from it is
\* an object whose threshold and uncertainty_range are numbers.
C18_InitWellFormed ==
  LET loaded == LoadConfig(localStorage, storeWorks)
  IN /\ loaded.t = "object"
     /\ loaded.threshold.t = "number"
     /\ loaded.uncertainty_range.t = "number"

\* C20: the failure message is the body's error or detail string when the
\* backend answered with a structured body carrying one, 'HTTP <status>:
\* <statusText>' when it answered with any other body, a structured body
\* with neither field included, and the transport error's message when
\* there was no response.
C20_MessagePrecedence ==
  returned # NoReturn =>
    LET response == args.error.response
        body == response.body
        carries(x) == x \notin {Absent, ""}
    IN returned.error =
         IF response.status = 0 THEN args.error.message
         ELSE IF body.isObject /\ carries(body.error) THEN body.error
         ELSE IF body.isObject /\ carries(body.detail) THEN body.detail
         ELSE HttpStatusText(response.status)

\* C21: a request whose attempt fails because the backend could not be
\* reached (connection refused) is retried while fewer than MAX_RETRIES
\* retries were made on its URL, and once they are used up it fails with
\* 'Unable to connect to DeepGuard backend. Please ensure the server is
\* running.'
C21_RefusedIsRetried ==
  [][\A p \in Analyzers :
        (pc[p] = "detect" /\ TransportError(p, "ECONNREFUSED")) =>
          IF RetryCount(retryAttempts, DetectUrl) < MAX_RETRIES
            THEN req'[p].phase = "backoff"
            ELSE req'[p].phase = "failed" /\ req'[p].error = ConnectMsg]_vars

\* C23: the percentage reported to onProgress for a progress event with
\* total > 0 is floor(loaded * 100 / total).
C23_PercentageIsFloor ==
  (returned # NoReturn /\ returned.called)
    => returned.percentage = (args.loaded * 100) \div args.total

\* C24: during one analyzeFile call (the only call made, neither cancelled
\* nor reset) the state's progress stays within 0..100 and never decreases,
\* also across the retries of its request, and it is 100 when the call
\* ends in success.
C24_ProgressMonotone ==
  [][\A p \in Analyzers :
        (/\ pc[p] = "detect" /\ mounted
         /\ p \notin aborted'
         /\ \A q \in Analyzers \ {p} : pc[q] = "idle")
        => /\ state'.progress \in 0..100
           /\ state'.progress >= state.progress
           /\ (pc'[p] = "done" /\ ret'[p] = p) => state'.progress = 100]_vars

\* C25: retry state is kept per endpoint path and cleared by that path's
\* next success: after a successful response on a path no retry counter is
\* left for that path (so the next call on it has all MAX_RETRIES retries),
\* and the counters of the other paths are as they were.
C25_CounterPerPath ==
  [][\A p \in Pollers :
        (req[p].phase = "flight" /\ req'[p].phase = "ok") =>
          \A k \in DOMAIN retryAttempts :
            IF PathOf(k) = PathOf(req[p].url)
              THEN k \notin DOMAIN retryAttempts'
              ELSE k \in DOMAIN retryAttempts'
                   /\ retryAttempts'[k] = retryAttempts[k]]_vars

\* C26: the calibration config App.handleFileSelect passes to analyzeFile
\* for an audio file is the current config of the store the
\* AudioCalibration panel edits, also right after setConfig / resetConfig
\* and without a page reload.
C26_SendsCurrentConfig ==
  [][\A type \in FileTypes :
        (IsAudio(type) /\ handleFileSelect(type)) => args'.config = config]_vars

\* C27: the session state never holds both a result and an error.
C27_ResultXorError == ~(state.result # NoResult /\ state.error # Absent)

\* C28: the retry counter kept for a URL is within 0..MAX_RETRIES (an
\* absent counter counting as 0).  In one step it stays as it is, or grows
\* by one while a retry is scheduled for a request on that URL, or is
\* cleared by a successful response on that URL; a step in which a call
\* fails for good leaves every counter as it was.
C28_CounterBounded ==
  /\ [](\A u \in DOMAIN retryAttempts : retryAttempts[u] \in 1..MAX_RETRIES)
  /\ [][\A u \in Urls :
          LET before == RetryCount(retryAttempts, u)
              after  == RetryCount(retryAttempts', u)
          IN /\ \/ after = before
                \/ /\ after = before + 1
                   /\ \E p \in Procs :
                        /\ req[p].url = u /\ Live(req[p])
                        /\ req'[p].phase = "backoff"
                        /\ req'[p].delay = BackoffDelay(before)
                \/ /\ after = 0
                   /\ \E p \in Procs, body \in Bodies :
                        req[p].url = u /\ HttpReply(p, 200, body)
             /\ \A p \in Procs :
                  (Live(req[p]) /\ req'[p].phase = "failed")
                    => retryAttempts' = retryAttempts]_vars

\* The counter of '/detect' has reached MAX_RETRIES and a call on '/detect'
\* has then failed for good, the counter staying at MAX_RETRIES.
C28_Witness ==
  /\ RetryCount(retryAttempts, DetectUrl) = MAX_RETRIES
  /\ \E p \in Analyzers : req[p].url = DetectUrl /\ req[p].phase = "failed"

\* C29: while the component is mounted, isAnalyzing = false implies that
\* no detect request of the controller is in flight and no analyzeFile call
\* is pending in validation or in a retry backoff wait.
C29_IdleMeansNothingPending ==
  (mounted /\ ~state.isAnalyzing) =>
    \A p \in Analyzers : pc[p] \notin {"validate", "detect"}

\* C30: every analyzeFile call eventually ends, whatever the backend
\* answers and whenever cancelAnalysis or resetAnalysis is called; a request
\* that started with no retry counter and shared it with no other call
\* makes at most MAX_RETRIES + 1 attempts; and the step that ends the call
\* leaves isAnalyzing = false with a result or an error.
C30_CallEnds ==
  /\ \A p \in Analyzers : (pc[p] \in {"validate", "detect"}) ~> (pc[p] = "done")
  /\ [](\A p \in Analyzers :
          (Live(req[p]) /\ req[p].fresh) => req[p].attempts <= MAX_RETRIES + 1)
  /\ [][\A p \in Analyzers :
          (pc[p] # "done" /\ pc'[p] = "done") =>
            /\ ~state'.isAnalyzing
            /\ state'.result # NoResult \/ state'.error \notin {Absent, ""}]_vars

\* A call whose every attempt was answered with a 5xx status has ended
\* after MAX_RETRIES + 1 attempts of its detect request.
C30_Witness ==
  \E p \in Analyzers :
    /\ pc[p] = "done" /\ req[p].url = DetectUrl /\ req[p].phase = "failed"
    /\ req[p].last = 503 /\ faults = Unbudgeted
    /\ RetryCount(retryAttempts, DetectUrl) = MAX_RETRIES

====
